---- MODULE Spec2Model ----
(***************************************************************************)
(* Model of the video edit pipeline of                                     *)
(* src/backend/app/services/video_processor.py (class VideoProcessor).     *)
(*                                                                         *)
(* Times are whole units.  A media file is its timeline: the sequence of   *)
(* source time units it holds, so its duration is the timeline's length.   *)
(* Text (stderr, error messages) is a sequence of code points.             *)
(* The external tools ffmpeg and ffprobe are black boxes: their exit       *)
(* status and stderr are chosen nondeterministically.                      *)
(***************************************************************************)
EXTENDS Integers, Sequences, FiniteSets, TLC

(* ------------------------------ bounds -------------------------------- *)
\* duration of the caller's source file
SrcDuration == 3
\* cut bounds of the pipeline requests range over 0..MaxCutTime
MaxCutTime == 3
\* trim bounds of the pipeline requests range over -1..MaxTrim
MaxTrim == 2
\* number of cuts in an input of the segment calculation (SpecCuts)
MaxCuts == 3
\* cut bounds of the segment calculation range over 0..MaxCalcTime, its
\* durations over 0..MaxCalcTime + 1
MaxCalcTime == 4
\* length of a captured stderr
MaxStderrLen == 1
MaxFilters == 3
MaxSpeed == 3

(* ------------------------------ values -------------------------------- *)
\* Python's None / an optional value
None == <<>>
Some(x) == <<x>>
IsNone(o) == o = <<>>
Val(o) == o[1]

Requests == {1, 2}

Max(a, b) == IF a > b THEN a ELSE b
Min(a, b) == IF a < b THEN a ELSE b

RECURSIVE SeqsUpTo(_, _)
\* all sequences over S of length <= n
SeqsUpTo(S, n) ==
    IF n = 0 THEN {<<>>}
    ELSE LET shorter == SeqsUpTo(S, n - 1)
         IN shorter \cup {Append(s, x) : s \in {t \in shorter : Len(t) = n - 1}, x \in S}

Last(s) == s[Len(s)]
Front(s) == SubSeq(s, 1, Len(s) - 1)

(* ------------------------------- paths -------------------------------- *)
\* A path is a directory and a file name; the name is the sequence of the
\* pieces the code concatenates (prefixes, then the caller's base name).
Path(dir, name) == [dir |-> dir, name |-> name]
NoPath == Path("", <<>>)

\* os.path.basename
basename(p) == p.name

\* self.temp_dir = Path("temp"), self.output_dir = Path("processed")
temp_dir == "temp"
output_dir == "processed"

\* str(self.output_dir), the string the cleanup compares each path with
OutputDirStr == Path(".", <<"processed">>)

(* -------------------------------- text -------------------------------- *)
\* bytes a tool writes to stderr: 65 is ASCII "A", 255 is never valid UTF-8
StderrBytes == {65, 255}
Stderrs == SeqsUpTo(StderrBytes, MaxStderrLen)

Utf8Valid(bytes) == \A i \in 1..Len(bytes) : bytes[i] < 128

\* index (from 0) of the first byte that is not valid UTF-8
FirstInvalid(bytes) ==
    (CHOOSE i \in 1..Len(bytes) :
        /\ bytes[i] >= 128
        /\ \A j \in 1..(i - 1) : bytes[j] < 128) - 1

RECURSIVE Digits(_)
\* str(n) of a natural number, as code points
Digits(n) == IF n < 10 THEN <<48 + n>> ELSE Digits(n \div 10) \o <<48 + (n % 10)>>

\* "FFmpeg processing failed: "
FfmpegFailedPrefix ==
    <<70, 70, 109, 112, 101, 103, 32, 112, 114, 111, 99, 101, 115, 115, 105,
      110, 103, 32, 102, 97, 105, 108, 101, 100, 58, 32>>
\* "ffprobe failed: "
FfprobeFailedPrefix ==
    <<102, 102, 112, 114, 111, 98, 101, 32, 102, 97, 105, 108, 101, 100, 58, 32>>
\* "'utf-8' codec can't decode byte 0xff in position "
DecodeErrorHead ==
    <<39, 117, 116, 102, 45, 56, 39, 32, 99, 111, 100, 101, 99, 32, 99, 97,
      110, 39, 116, 32, 100, 101, 99, 111, 100, 101, 32, 98, 121, 116, 101,
      32, 48, 120, 102, 102, 32, 105, 110, 32, 112, 111, 115, 105, 116, 105,
      111, 110, 32>>
\* ": invalid start byte"
DecodeErrorTail ==
    <<58, 32, 105, 110, 118, 97, 108, 105, 100, 32, 115, 116, 97, 114, 116,
      32, 98, 121, 116, 101>>
\* "float division by zero" / "division by zero" share this tail
DivisionByZeroText ==
    <<100, 105, 118, 105, 115, 105, 111, 110, 32, 98, 121, 32, 122, 101, 114, 111>>
\* "[Errno 2] No such file or directory", the head of str(e) of a
\* FileNotFoundError
NoSuchFileText ==
    <<91, 69, 114, 114, 110, 111, 32, 50, 93, 32, 78, 111, 32, 115, 117, 99,
      104, 32, 102, 105, 108, 101, 32, 111, 114, 32, 100, 105, 114, 101, 99,
      116, 111, 114, 121>>
\* "Expecting value: line 1 column 1 (char 0)": json.loads of no output
ExpectingValueText ==
    <<69, 120, 112, 101, 99, 116, 105, 110, 103, 32, 118, 97, 108, 117,
    101, 58, 32, 108, 105, 110, 101, 32, 49, 32, 99, 111, 108, 117, 109,
    110, 32, 49, 32, 40, 99, 104, 97, 114, 32, 48, 41>>
\* "'streams'" and "'format'": str(e) of the KeyError of a missing key
KeyStreamsText ==
    <<39, 115, 116, 114, 101, 97, 109, 115, 39>>
KeyFormatText ==
    <<39, 102, 111, 114, 109, 97, 116, 39>>
\* "could not convert string to float: 'N/A'"
NotAFloatText ==
    <<99, 111, 117, 108, 100, 32, 110, 111, 116, 32, 99, 111, 110, 118,
    101, 114, 116, 32, 115, 116, 114, 105, 110, 103, 32, 116, 111, 32,
    102, 108, 111, 97, 116, 58, 32, 39, 78, 47, 65, 39>>

\* an exception: its class and str(e)
Exc(cls, msg) == [cls |-> cls, msg |-> msg]

\* bytes.decode(): UTF-8, strict
\* returns [ok |-> TRUE, text] or [ok |-> FALSE, exc] (UnicodeDecodeError)
decode(bytes) ==
    IF Utf8Valid(bytes)
    THEN [ok |-> TRUE, text |-> bytes, exc |-> Exc("", <<>>)]
    ELSE [ok |-> FALSE, text |-> <<>>,
          exc |-> Exc("UnicodeDecodeError",
                      DecodeErrorHead \o Digits(FirstInvalid(bytes)) \o DecodeErrorTail)]

\* text t occurs in text s
Contains(s, t) ==
    \E i \in 0..(Len(s) - Len(t)) : SubSeq(s, i + 1, i + Len(t)) = t

\* the code points of the strings that paths are made of
Chars(s) ==
    CASE s = "../uploads/" ->
            <<46, 46, 47, 117, 112, 108, 111, 97, 100, 115, 47>>
      [] s = "uploads" ->
            <<117, 112, 108, 111, 97, 100, 115>>
      [] s = "temp" ->
            <<116, 101, 109, 112>>
      [] s = "processed" ->
            <<112, 114, 111, 99, 101, 115, 115, 101, 100>>
      [] s = "a.mp4" ->
            <<97, 46, 109, 112, 52>>
      [] s = "b.mp4" ->
            <<98, 46, 109, 112, 52>>
      [] s = "out.mp4" ->
            <<111, 117, 116, 46, 109, 112, 52>>
      [] s = "out1.mp4" ->
            <<111, 117, 116, 49, 46, 109, 112, 52>>
      [] s = "out2.mp4" ->
            <<111, 117, 116, 50, 46, 109, 112, 52>>
      [] s = "trimmed_" ->
            <<116, 114, 105, 109, 109, 101, 100, 95>>
      [] s = "cut_" ->
            <<99, 117, 116, 95>>
      [] s = "filtered_" ->
            <<102, 105, 108, 116, 101, 114, 101, 100, 95>>
      [] s = "processed_video_" ->
            <<112, 114, 111, 99, 101, 115, 115, 101, 100, 95, 118, 105,
            100, 101, 111, 95>>
      [] s = "thumbnail_" ->
            <<116, 104, 117, 109, 98, 110, 97, 105, 108, 95>>
      [] s = "20240101_000000" ->
            <<50, 48, 50, 52, 48, 49, 48, 49, 95, 48, 48, 48, 48, 48, 48>>
      [] s = "20240101_000001" ->
            <<50, 48, 50, 52, 48, 49, 48, 49, 95, 48, 48, 48, 48, 48, 49>>
      [] s = ".mp4" ->
            <<46, 109, 112, 52>>
      [] s = ".jpg" ->
            <<46, 106, 112, 103>>

RECURSIVE JoinChars(_)
\* the code points of the pieces of a name, joined
JoinChars(pieces) ==
    IF pieces = <<>> THEN <<>> ELSE Chars(Head(pieces)) \o JoinChars(Tail(pieces))

\* str(p) of a path: "dir/name"
PathText(p) == Chars(p.dir) \o <<47>> \o JoinChars(p.name)

\* str(e) of the FileNotFoundError of os.rename(src, dst):
\* "[Errno 2] No such file or directory: 'src' -> 'dst'"
RenameErrorText(src, dst) ==
    NoSuchFileText \o <<58, 32, 39>> \o PathText(src) \o <<39, 32, 45, 62, 32, 39>>
        \o PathText(dst) \o <<39>>

(* ------------------------- segment calculation ------------------------ *)
Cut(s, e) == [start |-> s, end |-> e]

RECURSIVE Insert(_, _)
\* insert cut c after every cut whose start is <= c.start
Insert(c, s) ==
    IF s = <<>> THEN <<c>>
    ELSE IF c.start < Head(s).start THEN <<c>> \o s
    ELSE <<Head(s)>> \o Insert(c, Tail(s))

\* the cuts taken in the caller's order, as if the sort were left out
sorted_Unsorted(cuts) == cuts

RECURSIVE sorted(_)
\* sorted(cuts, key=lambda x: x['start']): stable, by start only
sorted(cuts) ==
    IF cuts = <<>> THEN <<>>
    ELSE Insert(Last(cuts), sorted(Front(cuts)))

\* one element of filter_parts: the video trim and the audio atrim of a keep
\* segment; end is None for the final, open-ended segment
TrimPart(start, end, segment_index) ==
    [v |-> [start |-> start, end |-> end, label |-> segment_index],
     a |-> [start |-> start, end |-> end, label |-> segment_index]]

\* the guard of "Add segment before cut"
SegmentBeforeCut(current_time, cut_start) == current_time < cut_start

\* the guard of "Add final segment"
FinalSegment(current_time, total_duration) == current_time < total_duration

RECURSIVE CutLoop(_, _, _, _)
\* the for-loop over sorted_cuts
CutLoop(sorted_cuts, current_time, segment_index, filter_parts) ==
    IF sorted_cuts = <<>>
    THEN [current_time |-> current_time, segment_index |-> segment_index,
          filter_parts |-> filter_parts]
    ELSE LET cut == Head(sorted_cuts)
             cut_start == cut.start
             cut_end == cut.end
             emit == SegmentBeforeCut(current_time, cut_start)
         IN CutLoop(Tail(sorted_cuts), cut_end,
                    IF emit THEN segment_index + 1 ELSE segment_index,
                    IF emit
                    THEN Append(filter_parts,
                                TrimPart(current_time, Some(cut_start), segment_index))
                    ELSE filter_parts)

\* filter_parts and segment_index as _apply_cuts has them before the
\* "segment_index == 0" test
BuildCutParts(cuts, total_duration) ==
    LET sorted_cuts == sorted(cuts)
        loop == CutLoop(sorted_cuts, 0, 0, <<>>)
    IN IF FinalSegment(loop.current_time, total_duration)
       THEN [segment_index |-> loop.segment_index + 1,
             filter_parts |-> Append(loop.filter_parts,
                                     TrimPart(loop.current_time, None,
                                              loop.segment_index))]
       ELSE [segment_index |-> loop.segment_index,
             filter_parts |-> loop.filter_parts]

\* the keep segments the filter parts describe, in emission order: an
\* open-ended trim runs to the end of the input
KeepSegments(filter_parts, total_duration) ==
    [i \in 1..Len(filter_parts) |->
        [start |-> filter_parts[i].v.start,
         end |-> IF IsNone(filter_parts[i].v.end) THEN total_duration
                 ELSE Val(filter_parts[i].v.end)]]

(* ---------------------------- filter chains --------------------------- *)
\* params.get(key, default); params is a set of <<key, value>> pairs
Get(params, key, default) ==
    IF \E p \in params : p[1] = key
    THEN (CHOOSE p \in params : p[1] = key)[2]
    ELSE default

FilterConfig(type, params) == [type |-> type, params |-> params]

\* one element of a filter chain; its number is the fraction num/den
Elem(name, num, den) == [name |-> name, num |-> num, den |-> den]

\* the speed branch with the video factor not inverted
SpeedElems_NotInverted(speed) ==
    [v |-> <<Elem("setpts", speed, 1)>>, a |-> <<Elem("atempo", speed, 1)>>,
     exc |-> None]

\* video_filters.append(f"setpts={1/speed}*PTS");
\* audio_filters.append(f"atempo={speed}")
SpeedElems(speed) ==
    IF speed = 0
    THEN [v |-> <<>>, a |-> <<>>,
          exc |-> Some(Exc("ZeroDivisionError", DivisionByZeroText))]
    ELSE [v |-> <<Elem("setpts", 1, speed)>>, a |-> <<Elem("atempo", speed, 1)>>,
          exc |-> None]

\* what one filter_config appends to video_filters and audio_filters;
\* exc is the exception the branch raises, if any
FilterElems(filter_config) ==
    LET filter_type == filter_config.type
        filter_params == filter_config.params
        none == [v |-> <<>>, a |-> <<>>, exc |-> None]
    IN CASE filter_type = "brightness" ->
              [none EXCEPT !.v = <<Elem("eq=brightness", Get(filter_params, "value", 0), 100)>>]
         [] filter_type = "contrast" ->
              [none EXCEPT !.v = <<Elem("eq=contrast", Get(filter_params, "value", 1), 1)>>]
         [] filter_type = "saturation" ->
              [none EXCEPT !.v = <<Elem("eq=saturation", Get(filter_params, "value", 1), 1)>>]
         [] filter_type = "blur" ->
              [none EXCEPT !.v = <<Elem("boxblur", Get(filter_params, "radius", 2), 1)>>]
         [] filter_type = "grayscale" ->
              [none EXCEPT !.v = <<Elem("hue=s=0", 0, 1)>>]
         [] filter_type = "sepia" ->
              [none EXCEPT !.v = <<Elem("colorchannelmixer", 0, 1)>>]
         [] filter_type = "volume" ->
              [none EXCEPT !.a = <<Elem("volume", Get(filter_params, "value", 1), 1)>>]
         [] filter_type = "speed" ->
              LET speed == Get(filter_params, "speed", 1)
              IN SpeedElems(speed)
         [] OTHER -> none

RECURSIVE BuildFilterChains_Prepend(_, _, _)
\* the for-loop putting each element at the front of its chain
BuildFilterChains_Prepend(filters, video_filters, audio_filters) ==
    IF filters = <<>>
    THEN [video_filters |-> video_filters, audio_filters |-> audio_filters, exc |-> None]
    ELSE LET e == FilterElems(Head(filters))
         IN IF ~IsNone(e.exc)
            THEN [video_filters |-> video_filters, audio_filters |-> audio_filters,
                  exc |-> e.exc]
            ELSE BuildFilterChains_Prepend(Tail(filters), e.v \o video_filters,
                                           e.a \o audio_filters)

RECURSIVE BuildFilterChains(_, _, _)
\* the for-loop over filters
BuildFilterChains(filters, video_filters, audio_filters) ==
    IF filters = <<>>
    THEN [video_filters |-> video_filters, audio_filters |-> audio_filters, exc |-> None]
    ELSE LET e == FilterElems(Head(filters))
         IN IF ~IsNone(e.exc)
            THEN [video_filters |-> video_filters, audio_filters |-> audio_filters,
                  exc |-> e.exc]
            ELSE BuildFilterChains(Tail(filters), video_filters \o e.v,
                                   audio_filters \o e.a)

(* ------------------------------ commands ------------------------------ *)
\* the arguments of an invocation that the model keeps
NoArgs ==
    [ss |-> None, t |-> None, codec_copy |-> FALSE,
     filter_parts |-> <<>>, video_inputs |-> <<>>, audio_inputs |-> <<>>, n |-> None,
     vf |-> None, af |-> None]

\* what a process printed on stdout: nothing that the model keeps, or
\* ffprobe's JSON, of which the model keeps what _get_video_info trips on
\* (kind) and the "duration" of "format" (None when the key is absent)
NoStdout == [kind |-> "", duration |-> None]

\* an entry of a request's log: a tool invocation or a file operation;
\* returncode is None while the process runs
Op(op, stage, src, dst, args) ==
    [op |-> op, stage |-> stage, src |-> src, dst |-> dst, args |-> args,
     returncode |-> None, stderr |-> <<>>, stdout |-> NoStdout]

\* the trim command that never carries a duration limit
TrimCmd_NoDuration(input_path, start_time, end_time, output_path) ==
    Op("ffmpeg", "trim", input_path, output_path,
       [NoArgs EXCEPT !.ss = Some(start_time), !.codec_copy = TRUE])

\* cmd of _apply_trim
TrimCmd(input_path, start_time, end_time, output_path) ==
    Op("ffmpeg", "trim", input_path, output_path,
       [NoArgs EXCEPT !.ss = Some(start_time),
                      !.t = IF ~IsNone(end_time)
                            THEN Some(Val(end_time) - start_time)
                            ELSE None,
                      !.codec_copy = TRUE])

\* the concat inputs numbered from 1
Labels_FromOne(segment_index) == [i \in 1..segment_index |-> i]

\* [v0][v1]... : range(segment_index)
Labels(segment_index) == [i \in 1..segment_index |-> i - 1]

\* cmd of _apply_cuts
CutCmd(input_path, built, output_path) ==
    Op("ffmpeg", "cuts", input_path, output_path,
       [NoArgs EXCEPT !.filter_parts = built.filter_parts,
                      !.video_inputs = Labels(built.segment_index),
                      !.audio_inputs = Labels(built.segment_index),
                      !.n = Some(built.segment_index)])

\* cmd of _apply_filters
FilterCmd(input_path, video_filters, audio_filters, output_path) ==
    Op("ffmpeg", "filters", input_path, output_path,
       IF video_filters # <<>> /\ audio_filters # <<>>
       THEN [NoArgs EXCEPT !.vf = Some(video_filters), !.af = Some(audio_filters)]
       ELSE IF video_filters # <<>>
       THEN [NoArgs EXCEPT !.vf = Some(video_filters)]
       ELSE IF audio_filters # <<>>
       THEN [NoArgs EXCEPT !.af = Some(audio_filters)]
       ELSE NoArgs)

\* cmd of extract_thumbnail: one frame at the timestamp
ThumbnailCmd(video_path, at, thumbnail_path) ==
    Op("ffmpeg", "thumbnail", video_path, thumbnail_path,
       [NoArgs EXCEPT !.ss = Some(at)])

\* cmd of _get_video_info
ProbeCmd(stage, video_path) == Op("ffprobe", stage, video_path, NoPath, NoArgs)

(* ----------------------------- media files ---------------------------- *)
\* a complete media file: its timeline and the filter chains applied to it
Media(tl, fx) == [tl |-> tl, fx |-> fx, partial |-> FALSE]
\* what a failed ffmpeg run may leave at its output path
PartialMedia == [tl |-> <<>>, fx |-> <<>>, partial |-> TRUE]
\* the caller's source file
SourceMedia == Media([i \in 1..SrcDuration |-> i], <<>>)

\* units a+1..b of a timeline, clipped to the timeline
Slice(tl, a, b) ==
    LET lo == Max(a, 0)
        hi == Min(b, Len(tl))
    IN IF lo < hi THEN SubSeq(tl, lo + 1, hi) ELSE <<>>

RECURSIVE ConcatParts(_, _)
\* the concat of the trims of filter_parts
ConcatParts(tl, filter_parts) ==
    IF filter_parts = <<>> THEN <<>>
    ELSE LET p == Head(filter_parts).v
         IN Slice(tl, p.start, IF IsNone(p.end) THEN Len(tl) ELSE Val(p.end))
            \o ConcatParts(tl, Tail(filter_parts))

\* the file a successful ffmpeg run of command cmd writes from media m
FfmpegOutput(cmd, m) ==
    CASE cmd.stage = "trim" ->
            Media(Slice(m.tl, Val(cmd.args.ss),
                        IF IsNone(cmd.args.t) THEN Len(m.tl)
                        ELSE Val(cmd.args.ss) + Val(cmd.args.t)),
                  m.fx)
      [] cmd.stage = "cuts" -> Media(ConcatParts(m.tl, cmd.args.filter_parts), m.fx)
      [] cmd.stage = "thumbnail" ->
            Media(Slice(m.tl, Val(cmd.args.ss), Val(cmd.args.ss) + 1), m.fx)
      [] OTHER -> Media(m.tl, Append(m.fx, [vf |-> cmd.args.vf, af |-> cmd.args.af]))

\* the file a path names: the operating system follows "..", so
\* processed/../uploads/<name> is the file uploads/<name>
Resolve(p) ==
    IF p.dir = output_dir /\ p.name # <<>> /\ Head(p.name) = "../uploads/"
    THEN Path("uploads", Tail(p.name))
    ELSE p

\* the file system: a function from the files that exist to their content
Put(files, p, m) ==
    [q \in (DOMAIN files) \cup {Resolve(p)} |-> IF q = Resolve(p) THEN m ELSE files[q]]
Del(files, p) == [q \in (DOMAIN files) \ {Resolve(p)} |-> files[q]]
exists(files, p) == Resolve(p) \in DOMAIN files
Read(files, p) == files[Resolve(p)]
NoFiles == [q \in {} |-> PartialMedia]

(* --------------------------- external tools --------------------------- *)
\* what a tool run can do: its exit status, its stderr, and whether a failed
\* ffmpeg run left a file at its output path.  A tool whose input file is
\* missing fails and writes nothing.
ToolOutcomes(input_exists, writes) ==
    {[returncode |-> 1, stderr |-> e, stdout |-> NoStdout, wrote |-> w] :
        e \in Stderrs, w \in IF writes /\ input_exists THEN BOOLEAN ELSE {FALSE}}
    \cup IF input_exists
         THEN {[returncode |-> 0, stderr |-> <<>>, stdout |-> NoStdout,
                wrote |-> writes]}
         ELSE {}

\* what an ffmpeg run of cmd can do.  With "-vframes 1" at a timestamp at
\* which the input has no frame, ffmpeg encodes nothing and still exits
\* with status 0, with or without a file at its output path.
FfmpegOutcomes(files, cmd) ==
    ToolOutcomes(exists(files, cmd.src), TRUE)
    \cup IF /\ cmd.stage = "thumbnail"
            /\ exists(files, cmd.src)
            /\ FfmpegOutput(cmd, Read(files, cmd.src)).tl = <<>>
         THEN {[returncode |-> 0, stderr |-> <<>>, stdout |-> NoStdout,
                wrote |-> FALSE]}
         ELSE {}

\* what ffprobe can print when it exits with status 0 on media m: the JSON
\* with the streams and the format's duration ("ok"), or an output that
\* _get_video_info does not get through: nothing at all ("empty"), a JSON
\* without "streams" or without "format", a format without "duration", a
\* duration that is not a number ("N/A"), a video stream whose
\* r_frame_rate is "0/0"
ProbeKinds ==
    {"ok", "empty", "no_streams", "no_format", "no_duration", "bad_duration",
     "zero_rate"}
ProbeStdouts(m) ==
    {[kind |-> k,
      duration |-> IF k \in {"ok", "zero_rate"} THEN Some(Len(m.tl)) ELSE None] :
        k \in ProbeKinds}

\* what an ffprobe run on video_path can do
ProbeOutcomes(files, video_path) ==
    {[returncode |-> 1, stderr |-> e, stdout |-> NoStdout, wrote |-> FALSE] :
        e \in Stderrs}
    \cup IF exists(files, video_path)
         THEN {[returncode |-> 0, stderr |-> <<>>, stdout |-> o, wrote |-> FALSE] :
                 o \in ProbeStdouts(Read(files, video_path))}
         ELSE {}

\* the exit status left unchecked
run_ffmpeg_raises_Never(outcome) == None

\* the exception _run_ffmpeg_command raises for an outcome, or None
run_ffmpeg_raises(outcome) ==
    IF outcome.returncode # 0
    THEN LET error_msg == decode(outcome.stderr)
         IN IF error_msg.ok
            THEN Some(Exc("Exception", FfmpegFailedPrefix \o error_msg.text))
            ELSE Some(error_msg.exc)
    ELSE None

\* the exception _get_video_info raises for an outcome, or None
get_video_info_raises(outcome) ==
    IF outcome.returncode # 0
    THEN LET msg == decode(outcome.stderr)
         IN IF msg.ok
            THEN Some(Exc("Exception", FfprobeFailedPrefix \o msg.text))
            ELSE Some(msg.exc)
    ELSE CASE outcome.stdout.kind = "empty" ->
                Some(Exc("JSONDecodeError", ExpectingValueText))
           [] outcome.stdout.kind = "no_streams" ->
                Some(Exc("KeyError", KeyStreamsText))
           [] outcome.stdout.kind = "no_format" ->
                Some(Exc("KeyError", KeyFormatText))
           [] outcome.stdout.kind = "bad_duration" ->
                Some(Exc("ValueError", NotAFloatText))
           [] outcome.stdout.kind = "zero_rate" ->
                Some(Exc("ZeroDivisionError", DivisionByZeroText))
           [] OTHER -> None

\* the dictionary _get_video_info returns for ffprobe's output:
\* info['format'].get('duration', 0)
VideoInfo(info) ==
    [duration |-> IF IsNone(info.duration) THEN 0 ELSE Val(info.duration)]

\* the classes "except Exception" catches
ExceptionClasses ==
    {"Exception", "UnicodeDecodeError", "ZeroDivisionError", "FileNotFoundError",
     "JSONDecodeError", "KeyError", "ValueError"}

(* ----------------------------- the requests --------------------------- *)
\* datetime.now().strftime("%Y%m%d_%H%M%S") of the clock's seconds
Timestamps == <<"20240101_000000", "20240101_000001">>
\* the timestamps extract_thumbnail is called with: each unit of the source
\* and the first one past its end; 1.0 is the parameter's default
ThumbnailTimes == 0..SrcDuration
DefaultTimestamp == 1

EditingData(trimStart, trimEnd, cuts, filters) ==
    [trimStart |-> trimStart, trimEnd |-> trimEnd, cuts |-> cuts, filters |-> filters]
NoEdit == EditingData(0, None, <<>>, <<>>)

TrimValues == (0 - 1)..MaxTrim
CutPairs == {Cut(s, e) : s \in 0..MaxCutTime, e \in 0..MaxCutTime}
\* the cut lists of the pipeline requests: no cut or one cut, of any shape
PipelineCutLists == {<<>>} \cup {<<c>> : c \in CutPairs}
\* the filter lists of the pipeline requests
PipelineFilterLists ==
    {<<>>,
     <<FilterConfig("grayscale", {})>>,
     <<FilterConfig("sharpen", {})>>,
     <<FilterConfig("speed", {<<"speed", 0>>})>>}
EditSpecs ==
    {EditingData(s, e, c, f) :
        s \in TrimValues, e \in {None} \cup {Some(x) : x \in TrimValues},
        c \in PipelineCutLists, f \in PipelineFilterLists}

UploadA == Path("uploads", <<"a.mp4">>)
OutputNames == {None, Some(<<"out.mp4">>)}
\* the output_filename "../uploads/a.mp4": under the output directory it
\* names the caller's input file
InputAlias == <<"../uploads/", "a.mp4">>

VARIABLES
    input_path,       \* [request -> path]: the caller's input_path
    editing_data,     \* [request -> EditingData]
    output_filename,  \* [request -> optional name]
    output_path,      \* [request -> path]: self.output_dir / output_filename
    trimmed_path,     \* [request -> optional path]
    cut_path,         \* [request -> optional path]
    filtered_path,    \* [request -> optional path]
    total_duration,   \* [request -> optional duration]: the cut stage's probe
    video_info,       \* [request -> optional info]: the final probe
    pc,               \* [request -> where process_video is]
    ops,              \* [request -> log of tool invocations and file operations]
    result,           \* [request -> optional returned dictionary]
    fs,               \* the file system
    now,              \* the clock, in seconds
    calc,             \* the segment calculation run on its own (SpecCuts)
    fcalc,            \* the filter chains built on their own (SpecFilters)
    timestamp,        \* [request -> the timestamp extract_thumbnail is called with]
    thumbnail         \* [request -> what extract_thumbnail returned or raised]

vars ==
    <<input_path, editing_data, output_filename, output_path, trimmed_path,
      cut_path, filtered_path, total_duration, video_info, pc, ops, result,
      fs, now, calc, fcalc, timestamp, thumbnail>>

inputs == <<input_path, editing_data, now, calc, fcalc, timestamp>>

\* extract_thumbnail not called, or not back yet
NoThumbnail == [value |-> None, exc |-> None]

NoCalc == [cuts |-> <<>>, total_duration |-> 0, built |-> None]
NoFilterCalc == [filters |-> <<>>, built |-> None]

\* a request runs without interruption between two awaits of a process
Transient == {"trim", "cuts", "filters", "move"}
Turn(r) == \A q \in Requests \ {r} : pc[q] \notin Transient

FailureResult(error) ==
    [success |-> FALSE, error |-> error, output_path |-> NoPath,
     video_info |-> None]
SuccessResult(path, info) ==
    [success |-> TRUE, error |-> <<>>, output_path |-> path,
     video_info |-> Some(info)]

\* the state in which request 1 is about to call process_video, with an
\* output_filename of the set names, or extract_thumbnail, and the other
\* requests are never made
InitNamed(names) ==
    /\ \/ /\ pc = [r \in Requests |-> IF r = 1 THEN "start" ELSE "off"]
          /\ \E e \in EditSpecs :
                editing_data = [r \in Requests |-> IF r = 1 THEN e ELSE NoEdit]
          /\ \E o \in names :
                output_filename = [r \in Requests |-> IF r = 1 THEN o ELSE None]
          /\ timestamp = [r \in Requests |-> DefaultTimestamp]
       \/ /\ pc = [r \in Requests |-> IF r = 1 THEN "thumbnail" ELSE "off"]
          /\ editing_data = [r \in Requests |-> NoEdit]
          /\ output_filename = [r \in Requests |-> None]
          /\ \E t \in ThumbnailTimes :
                timestamp = [r \in Requests |-> IF r = 1 THEN t ELSE DefaultTimestamp]
    /\ input_path = [r \in Requests |-> UploadA]
    /\ fs \in {NoFiles, Put(NoFiles, UploadA, SourceMedia)}
    /\ output_path = [r \in Requests |-> NoPath]
    /\ trimmed_path = [r \in Requests |-> None]
    /\ cut_path = [r \in Requests |-> None]
    /\ filtered_path = [r \in Requests |-> None]
    /\ total_duration = [r \in Requests |-> None]
    /\ video_info = [r \in Requests |-> None]
    /\ ops = [r \in Requests |-> <<>>]
    /\ result = [r \in Requests |-> None]
    /\ now = 0
    /\ calc = NoCalc
    /\ fcalc = NoFilterCalc
    /\ thumbnail = [r \in Requests |-> NoThumbnail]

\* the output_filename is absent or a plain name in the output directory
Init == InitNamed(OutputNames)

(* ------------------------------ the handler --------------------------- *)
\* the handler that runs the pipeline again after an exception
Fail_Retry(r, exc) ==
    /\ pc' = [pc EXCEPT ![r] = "trim"]
    /\ UNCHANGED result

\* except Exception as e: return {"success": False, "error": str(e)}
Fail(r, exc) ==
    IF exc.cls \in ExceptionClasses
    THEN /\ result' = [result EXCEPT ![r] = Some(FailureResult(exc.msg))]
         /\ pc' = [pc EXCEPT ![r] = "failed"]
    ELSE /\ pc' = [pc EXCEPT ![r] = "raised"]
         /\ UNCHANGED result

\* the log with its last entry's process exited
Exited(log, outcome) ==
    [log EXCEPT ![Len(log)].returncode = Some(outcome.returncode),
                ![Len(log)].stderr = outcome.stderr,
                ![Len(log)].stdout = outcome.stdout]

\* the process of the request's last invocation is still running
Running(r) == ops[r] # <<>> /\ IsNone(Last(ops[r]).returncode)

\* "stdout, stderr = await process.communicate()" of an exited process
communicate(e) ==
    [returncode |-> Val(e.returncode), stderr |-> e.stderr, stdout |-> e.stdout]

\* the stage writing over the file it reads
StageOutput_InPlace(prefix, in_path) == in_path

\* self.temp_dir / f"trimmed_{os.path.basename(input_path)}", and the same
\* with "cut_" and "filtered_"
StageOutput(prefix, in_path) == Path(temp_dir, <<prefix>> \o basename(in_path))

\* the trim never skipped
TrimSkipped_Never(start_time, end_time) == FALSE

\* "if start_time == 0 and end_time is None: return input_path"
TrimSkipped(start_time, end_time) == start_time = 0 /\ IsNone(end_time)

\* the path each stage is called with
TrimInput(r) == input_path[r]
\* the cut stage called with the caller's input instead of the trim's result
CutsInput_Source(r) == input_path[r]
CutsInput(r) == Val(trimmed_path[r])
FiltersInput(r) == Val(cut_path[r])
MoveSource(r) == Val(filtered_path[r])

\* what an ffmpeg run of cmd does to the file system
FfmpegEffect(files, cmd, outcome) ==
    IF ~outcome.wrote THEN files
    ELSE IF outcome.returncode = 0
    THEN Put(files, cmd.dst, FfmpegOutput(cmd, Read(files, cmd.src)))
    ELSE Put(files, cmd.dst, PartialMedia)

\* the process of the request's last invocation exits: what it read of its
\* input, what it wrote and what it printed are settled here, whenever the
\* coroutine that awaits it gets to run again
ProcessExit(r) ==
    /\ Running(r)
    /\ LET cmd == Last(ops[r])
       IN \E outcome \in IF cmd.op = "ffprobe"
                         THEN ProbeOutcomes(fs, cmd.src)
                         ELSE FfmpegOutcomes(fs, cmd) :
            /\ ops' = [ops EXCEPT ![r] = Exited(@, outcome)]
            /\ fs' = IF cmd.op = "ffprobe" THEN fs ELSE FfmpegEffect(fs, cmd, outcome)
    /\ UNCHANGED <<inputs, thumbnail, output_filename, output_path, trimmed_path, cut_path,
                   filtered_path, total_duration, video_info, pc, result>>

\* process_video up to "Step 1"
ProcessVideo(r) ==
    /\ pc[r] = "start"
    /\ Turn(r)
    /\ LET name == IF IsNone(output_filename[r])
                   THEN <<"processed_video_", Timestamps[now + 1], ".mp4">>
                   ELSE Val(output_filename[r])
       IN /\ output_filename' = [output_filename EXCEPT ![r] = Some(name)]
          /\ output_path' = [output_path EXCEPT ![r] = Path(output_dir, name)]
    /\ pc' = [pc EXCEPT ![r] = "trim"]
    /\ UNCHANGED <<inputs, thumbnail, trimmed_path, cut_path, filtered_path, total_duration,
                   video_info, ops, result, fs>>

\* _apply_trim up to the await of the process
ApplyTrim(r) ==
    /\ pc[r] = "trim"
    /\ Turn(r)
    /\ LET start_time == editing_data[r].trimStart
           end_time == editing_data[r].trimEnd
           in_path == TrimInput(r)
       IN IF TrimSkipped(start_time, end_time)
          THEN /\ trimmed_path' = [trimmed_path EXCEPT ![r] = Some(in_path)]
               /\ pc' = [pc EXCEPT ![r] = "cuts"]
               /\ UNCHANGED ops
          ELSE LET out == StageOutput("trimmed_", in_path)
               IN /\ ops' = [ops EXCEPT ![r] =
                               Append(@, TrimCmd(in_path, start_time, end_time, out))]
                  /\ pc' = [pc EXCEPT ![r] = "trim_wait"]
                  /\ UNCHANGED trimmed_path
    /\ UNCHANGED <<inputs, thumbnail, output_filename, output_path, cut_path, filtered_path,
                   total_duration, video_info, result, fs>>

\* the coroutine resumes after the trim's ffmpeg has exited: the rest of
\* _run_ffmpeg_command and _apply_trim
TrimExit(r) ==
    /\ pc[r] = "trim_wait"
    /\ ~Running(r)
    /\ Turn(r)
    /\ LET cmd == Last(ops[r])
           exc == run_ffmpeg_raises(communicate(cmd))
       IN IF IsNone(exc)
          THEN /\ trimmed_path' = [trimmed_path EXCEPT ![r] = Some(cmd.dst)]
               /\ pc' = [pc EXCEPT ![r] = "cuts"]
               /\ UNCHANGED result
          ELSE /\ Fail(r, Val(exc))
               /\ UNCHANGED trimmed_path
    /\ UNCHANGED <<inputs, thumbnail, output_filename, output_path, cut_path, filtered_path,
                   total_duration, video_info, ops, fs>>

\* _apply_cuts up to the await of the probe
ApplyCuts(r) ==
    /\ pc[r] = "cuts"
    /\ Turn(r)
    /\ LET in_path == CutsInput(r)
           cuts == editing_data[r].cuts
       IN IF cuts = <<>>
          THEN /\ cut_path' = [cut_path EXCEPT ![r] = Some(in_path)]
               /\ pc' = [pc EXCEPT ![r] = "filters"]
               /\ UNCHANGED ops
          ELSE /\ ops' = [ops EXCEPT ![r] = Append(@, ProbeCmd("cuts", in_path))]
               /\ pc' = [pc EXCEPT ![r] = "cuts_probe_wait"]
               /\ UNCHANGED cut_path
    /\ UNCHANGED <<inputs, thumbnail, output_filename, output_path, trimmed_path, filtered_path,
                   total_duration, video_info, result, fs>>

\* the coroutine resumes after the cut stage's ffprobe has exited: the rest
\* of _get_video_info, then _apply_cuts up to the await of ffmpeg
CutsProbed(r) ==
    /\ pc[r] = "cuts_probe_wait"
    /\ ~Running(r)
    /\ Turn(r)
    /\ LET in_path == CutsInput(r)
           cuts == editing_data[r].cuts
           out == StageOutput("cut_", in_path)
           probe == communicate(Last(ops[r]))
           exc == get_video_info_raises(probe)
       IN IF ~IsNone(exc)
          THEN /\ Fail(r, Val(exc))
               /\ UNCHANGED <<total_duration, cut_path, ops>>
          ELSE LET duration == VideoInfo(probe.stdout).duration
                   built == BuildCutParts(cuts, duration)
               IN /\ total_duration' = [total_duration EXCEPT ![r] = Some(duration)]
                  /\ UNCHANGED result
                  /\ IF built.segment_index = 0
                     THEN /\ cut_path' = [cut_path EXCEPT ![r] = Some(in_path)]
                          /\ pc' = [pc EXCEPT ![r] = "filters"]
                          /\ UNCHANGED ops
                     ELSE /\ ops' = [ops EXCEPT ![r] =
                                       Append(@, CutCmd(in_path, built, out))]
                          /\ pc' = [pc EXCEPT ![r] = "cuts_wait"]
                          /\ UNCHANGED cut_path
    /\ UNCHANGED <<inputs, thumbnail, output_filename, output_path, trimmed_path, filtered_path,
                   video_info, fs>>

\* the coroutine resumes after the cut's ffmpeg has exited: the rest of
\* _run_ffmpeg_command and _apply_cuts
CutsExit(r) ==
    /\ pc[r] = "cuts_wait"
    /\ ~Running(r)
    /\ Turn(r)
    /\ LET cmd == Last(ops[r])
           exc == run_ffmpeg_raises(communicate(cmd))
       IN IF IsNone(exc)
          THEN /\ cut_path' = [cut_path EXCEPT ![r] = Some(cmd.dst)]
               /\ pc' = [pc EXCEPT ![r] = "filters"]
               /\ UNCHANGED result
          ELSE /\ Fail(r, Val(exc))
               /\ UNCHANGED cut_path
    /\ UNCHANGED <<inputs, thumbnail, output_filename, output_path, trimmed_path, filtered_path,
                   total_duration, video_info, ops, fs>>

\* _apply_filters up to the await of the process
ApplyFilters(r) ==
    /\ pc[r] = "filters"
    /\ Turn(r)
    /\ LET in_path == FiltersInput(r)
           filters == editing_data[r].filters
           out == StageOutput("filtered_", in_path)
           chains == BuildFilterChains(filters, <<>>, <<>>)
       IN IF filters = <<>>
          THEN /\ filtered_path' = [filtered_path EXCEPT ![r] = Some(in_path)]
               /\ pc' = [pc EXCEPT ![r] = "move"]
               /\ UNCHANGED <<ops, result>>
          ELSE IF ~IsNone(chains.exc)
          THEN /\ Fail(r, Val(chains.exc))
               /\ UNCHANGED <<ops, filtered_path>>
          ELSE /\ ops' = [ops EXCEPT ![r] =
                            Append(@, FilterCmd(in_path, chains.video_filters,
                                                chains.audio_filters, out))]
               /\ pc' = [pc EXCEPT ![r] = "filters_wait"]
               /\ UNCHANGED <<filtered_path, result>>
    /\ UNCHANGED <<inputs, thumbnail, output_filename, output_path, trimmed_path, cut_path,
                   total_duration, video_info, fs>>

\* the coroutine resumes after the filter's ffmpeg has exited: the rest of
\* _run_ffmpeg_command and _apply_filters
FiltersExit(r) ==
    /\ pc[r] = "filters_wait"
    /\ ~Running(r)
    /\ Turn(r)
    /\ LET cmd == Last(ops[r])
           exc == run_ffmpeg_raises(communicate(cmd))
       IN IF IsNone(exc)
          THEN /\ filtered_path' = [filtered_path EXCEPT ![r] = Some(cmd.dst)]
               /\ pc' = [pc EXCEPT ![r] = "move"]
               /\ UNCHANGED result
          ELSE /\ Fail(r, Val(exc))
               /\ UNCHANGED filtered_path
    /\ UNCHANGED <<inputs, thumbnail, output_filename, output_path, trimmed_path, cut_path,
                   total_duration, video_info, ops, fs>>

\* filtered_path != output_path: a str against a Path, which are never equal
StrNePath(s, p) == TRUE

\* a file operation's log entry; returncode 0: done, 1: it raised
FileOp(op, src, dst, returncode) ==
    [Op(op, "finalize", src, dst, NoArgs) EXCEPT !.returncode = Some(returncode)]

\* os.rename(src, dst): dst is replaced if it exists
rename(files, src, dst) == Put(Del(files, src), dst, Read(files, src))

\* "Step 4": the move to the output path, then _get_video_info up to the
\* await of the probe
Finalize(r) ==
    /\ pc[r] = "move"
    /\ Turn(r)
    /\ LET src == MoveSource(r)
           dst == output_path[r]
       IN IF StrNePath(src, dst) /\ ~exists(fs, src)
          THEN /\ ops' = [ops EXCEPT ![r] = Append(@, FileOp("rename", src, dst, 1))]
               /\ Fail(r, Exc("FileNotFoundError", RenameErrorText(src, dst)))
               /\ UNCHANGED fs
          ELSE /\ fs' = IF StrNePath(src, dst) THEN rename(fs, src, dst) ELSE fs
               /\ ops' = [ops EXCEPT ![r] =
                            (IF StrNePath(src, dst)
                             THEN Append(@, FileOp("rename", src, dst, 0))
                             ELSE @) \o <<ProbeCmd("finalize", dst)>>]
               /\ pc' = [pc EXCEPT ![r] = "probe_wait"]
               /\ UNCHANGED result
    /\ UNCHANGED <<inputs, thumbnail, output_filename, output_path, trimmed_path, cut_path,
                   filtered_path, total_duration, video_info>>

\* the cleanup that removes nothing
cleanup_temp_files_Nothing(files, file_paths, removed) ==
    [files |-> files, removed |-> removed]

RECURSIVE cleanup_temp_files(_, _, _)
\* _cleanup_temp_files: the files left and the paths removed, in order
cleanup_temp_files(files, file_paths, removed) ==
    IF file_paths = <<>> THEN [files |-> files, removed |-> removed]
    ELSE LET file_path == Head(file_paths)
         IN IF exists(files, file_path) /\ file_path # OutputDirStr
            THEN cleanup_temp_files(Del(files, file_path), Tail(file_paths),
                                    Append(removed, file_path))
            ELSE cleanup_temp_files(files, Tail(file_paths), removed)

\* the coroutine resumes after the final ffprobe has exited: the rest of
\* _get_video_info, the cleanup and the return
FinalProbed(r) ==
    /\ pc[r] = "probe_wait"
    /\ ~Running(r)
    /\ Turn(r)
    /\ LET probe == communicate(Last(ops[r]))
           exc == get_video_info_raises(probe)
       IN IF ~IsNone(exc)
          THEN /\ Fail(r, Val(exc))
               /\ UNCHANGED <<video_info, fs, ops>>
          ELSE LET info == VideoInfo(probe.stdout)
                   clean == cleanup_temp_files(
                                fs,
                                <<Val(trimmed_path[r]), Val(cut_path[r]),
                                  Val(filtered_path[r])>>,
                                <<>>)
               IN /\ video_info' = [video_info EXCEPT ![r] = Some(info)]
                  /\ fs' = clean.files
                  /\ ops' = [ops EXCEPT ![r] =
                               @ \o [i \in 1..Len(clean.removed) |->
                                        FileOp("remove", clean.removed[i], NoPath, 0)]]
                  /\ result' = [result EXCEPT ![r] =
                                  Some(SuccessResult(output_path[r], info))]
                  /\ pc' = [pc EXCEPT ![r] = "done"]
    /\ UNCHANGED <<inputs, thumbnail, output_filename, output_path, trimmed_path, cut_path,
                   filtered_path, total_duration>>

\* extract_thumbnail up to the await of the process
ExtractThumbnail(r) ==
    /\ pc[r] = "thumbnail"
    /\ Turn(r)
    /\ LET timestamp_str == Timestamps[now + 1]
           thumbnail_path == Path(output_dir, <<"thumbnail_", timestamp_str, ".jpg">>)
       IN ops' = [ops EXCEPT ![r] =
                    Append(@, ThumbnailCmd(input_path[r], timestamp[r], thumbnail_path))]
    /\ pc' = [pc EXCEPT ![r] = "thumbnail_wait"]
    /\ UNCHANGED <<inputs, thumbnail, output_filename, output_path, trimmed_path,
                   cut_path, filtered_path, total_duration, video_info, result, fs>>

\* the coroutine resumes after the thumbnail's ffmpeg has exited: the rest of
\* _run_ffmpeg_command, whose exception nothing in extract_thumbnail
\* catches, and the return of the path
ThumbnailExit(r) ==
    /\ pc[r] = "thumbnail_wait"
    /\ ~Running(r)
    /\ Turn(r)
    /\ LET cmd == Last(ops[r])
           exc == run_ffmpeg_raises(communicate(cmd))
       IN IF IsNone(exc)
          THEN /\ thumbnail' = [thumbnail EXCEPT ![r].value = Some(cmd.dst)]
               /\ pc' = [pc EXCEPT ![r] = "thumbnail_done"]
          ELSE /\ thumbnail' = [thumbnail EXCEPT ![r].exc = exc]
               /\ pc' = [pc EXCEPT ![r] = "thumbnail_raised"]
    /\ UNCHANGED <<inputs, output_filename, output_path, trimmed_path, cut_path,
                   filtered_path, total_duration, video_info, ops, result, fs>>

\* the positions of a call of extract_thumbnail
ThumbnailCalls == {"thumbnail", "thumbnail_wait", "thumbnail_done", "thumbnail_raised"}

Next ==
    \E r \in Requests :
        \/ ProcessVideo(r)
        \/ ProcessExit(r)
        \/ ApplyTrim(r)
        \/ TrimExit(r)
        \/ ApplyCuts(r)
        \/ CutsProbed(r)
        \/ CutsExit(r)
        \/ ApplyFilters(r)
        \/ FiltersExit(r)
        \/ Finalize(r)
        \/ FinalProbed(r)
        \/ ExtractThumbnail(r)
        \/ ThumbnailExit(r)

Spec == Init /\ [][Next]_vars

(* ------------- an output_filename that names the input file ----------- *)
\* the caller passes the output_filename "../uploads/a.mp4"
InitAlias == InitNamed({Some(InputAlias)})

SpecAlias == InitAlias /\ [][Next]_vars

(* ------------------------ two requests in flight ---------------------- *)
UploadB == Path("uploads", <<"b.mp4">>)
\* the edits of the concurrent requests: none, a trim, a cut, a filter
ConcEditSpecs ==
    {NoEdit,
     EditingData(1, None, <<>>, <<>>),
     EditingData(0, Some(2), <<>>, <<>>),
     EditingData(0, None, <<Cut(1, 2)>>, <<>>),
     EditingData(0, None, <<>>, <<FilterConfig("grayscale", {})>>)}
\* the output_filename of request r: generated, or a name of its own
ConcOutputNames(r) ==
    {None, Some(IF r = 1 THEN <<"out1.mp4">> ELSE <<"out2.mp4">>)}

\* request 1 is about to call process_video and request 2 process_video or
\* extract_thumbnail, on the same input file or on two input files; the
\* input files exist
InitConc ==
    /\ \/ /\ pc = [r \in Requests |-> "start"]
          /\ editing_data \in [Requests -> ConcEditSpecs]
          /\ \E o1 \in ConcOutputNames(1), o2 \in ConcOutputNames(2) :
                output_filename = [r \in Requests |-> IF r = 1 THEN o1 ELSE o2]
          /\ timestamp = [r \in Requests |-> DefaultTimestamp]
       \/ /\ pc = [r \in Requests |-> IF r = 1 THEN "start" ELSE "thumbnail"]
          /\ \E e \in ConcEditSpecs :
                editing_data = [r \in Requests |-> IF r = 1 THEN e ELSE NoEdit]
          /\ \E o1 \in ConcOutputNames(1) :
                output_filename = [r \in Requests |-> IF r = 1 THEN o1 ELSE None]
          /\ \E t \in ThumbnailTimes :
                timestamp = [r \in Requests |-> IF r = 1 THEN DefaultTimestamp ELSE t]
    /\ \E p \in {UploadA, UploadB} :
          input_path = [r \in Requests |-> IF r = 1 THEN UploadA ELSE p]
    /\ fs = Put(Put(NoFiles, UploadA, SourceMedia), UploadB, SourceMedia)
    /\ output_path = [r \in Requests |-> NoPath]
    /\ trimmed_path = [r \in Requests |-> None]
    /\ cut_path = [r \in Requests |-> None]
    /\ filtered_path = [r \in Requests |-> None]
    /\ total_duration = [r \in Requests |-> None]
    /\ video_info = [r \in Requests |-> None]
    /\ ops = [r \in Requests |-> <<>>]
    /\ result = [r \in Requests |-> None]
    /\ now = 0
    /\ calc = NoCalc
    /\ fcalc = NoFilterCalc
    /\ thumbnail = [r \in Requests |-> NoThumbnail]

\* the clock of datetime.now() passes to the next second while a request
\* has yet to read it
Tick ==
    /\ now + 1 < Len(Timestamps)
    /\ \E r \in Requests : pc[r] \in {"start", "thumbnail"}
    /\ \A r \in Requests : pc[r] \notin Transient
    /\ now' = now + 1
    /\ UNCHANGED <<input_path, editing_data, output_filename, output_path, timestamp,
                   thumbnail,
                   trimmed_path, cut_path, filtered_path, total_duration,
                   video_info, pc, ops, result, fs, calc, fcalc>>

NextConc == Next \/ Tick

SpecConc == InitConc /\ [][NextConc]_vars

(* ------------------------- a cancelled request ------------------------ *)
\* the positions at which process_video awaits a process
Awaiting ==
    {"trim_wait", "cuts_probe_wait", "cuts_wait", "filters_wait", "probe_wait",
     "thumbnail_wait"}

\* the task running process_video or extract_thumbnail is cancelled:
\* CancelledError is raised at the await of process.communicate(); it is
\* not an Exception, so the except branch of process_video does not catch
\* it, it leaves extract_thumbnail like any exception of
\* _run_ffmpeg_command, and nothing terminates or awaits the process
Cancel(r) ==
    /\ pc[r] \in Awaiting
    /\ Turn(r)
    /\ IF pc[r] = "thumbnail_wait"
       THEN /\ thumbnail' = [thumbnail EXCEPT ![r].exc = Some(Exc("CancelledError", <<>>))]
            /\ pc' = [pc EXCEPT ![r] = "thumbnail_raised"]
            /\ UNCHANGED result
       ELSE /\ Fail(r, Exc("CancelledError", <<>>))
            /\ UNCHANGED thumbnail
    /\ UNCHANGED <<inputs, output_filename, output_path, trimmed_path, cut_path,
                   filtered_path, total_duration, video_info, ops, fs>>

NextCancel == Next \/ \E r \in Requests : Cancel(r)

SpecCancel == Init /\ [][NextCancel]_vars

(* ------------------- the segment calculation on its own --------------- *)
ValidCuts == {c \in {Cut(s, e) : s \in 0..MaxCalcTime, e \in 0..MaxCalcTime} :
                c.start < c.end}

\* no request is made; the inputs of the calculation are every list of
\* one to MaxCuts cuts with start < end (with no cuts _apply_cuts returns
\* before the calculation) and every duration up to one unit past the last
\* cut bound
InitCuts ==
    /\ calc \in {[cuts |-> c, total_duration |-> d, built |-> None] :
                    c \in SeqsUpTo(ValidCuts, MaxCuts) \ {<<>>},
                    d \in 0..(MaxCalcTime + 1)}
    /\ editing_data = [r \in Requests |-> NoEdit]
    /\ output_filename = [r \in Requests |-> None]
    /\ input_path = [r \in Requests |-> UploadA]
    /\ fs = NoFiles
    /\ output_path = [r \in Requests |-> NoPath]
    /\ trimmed_path = [r \in Requests |-> None]
    /\ cut_path = [r \in Requests |-> None]
    /\ filtered_path = [r \in Requests |-> None]
    /\ total_duration = [r \in Requests |-> None]
    /\ video_info = [r \in Requests |-> None]
    /\ pc = [r \in Requests |-> "off"]
    /\ ops = [r \in Requests |-> <<>>]
    /\ result = [r \in Requests |-> None]
    /\ now = 0
    /\ timestamp = [r \in Requests |-> DefaultTimestamp]
    /\ thumbnail = [r \in Requests |-> NoThumbnail]
    /\ fcalc = NoFilterCalc

\* lines 133-184 of _apply_cuts applied to the input: the segments, and the
\* command built from them unless there is no segment
CalcStep ==
    /\ IsNone(calc.built)
    /\ LET built == BuildCutParts(calc.cuts, calc.total_duration)
           out == StageOutput("cut_", UploadA)
       IN calc' = [calc EXCEPT !.built =
                      Some([segment_index |-> built.segment_index,
                            filter_parts |-> built.filter_parts,
                            cmd |-> IF built.segment_index = 0 THEN None
                                    ELSE Some(CutCmd(UploadA, built, out))])]
    /\ UNCHANGED <<input_path, editing_data, output_filename, output_path, timestamp,
                   thumbnail,
                   trimmed_path, cut_path, filtered_path, total_duration,
                   video_info, pc, ops, result, fs, now, fcalc>>

NextCuts == CalcStep

SpecCuts == InitCuts /\ [][NextCuts]_vars

(* ------------------- the filter chains on their own ------------------- *)
\* the filter_configs the chains are built from: every known type, a type
\* without a branch, and every speed from 0 to MaxSpeed
FilterPool ==
    {FilterConfig("speed", {<<"speed", f>>}) : f \in 0..MaxSpeed}
    \cup {FilterConfig("speed", {}),
          FilterConfig("brightness", {<<"value", 50>>}),
          FilterConfig("contrast", {<<"value", 2>>}),
          FilterConfig("saturation", {}),
          FilterConfig("blur", {}),
          FilterConfig("grayscale", {}),
          FilterConfig("sepia", {}),
          FilterConfig("volume", {<<"value", 2>>}),
          FilterConfig("sharpen", {})}

\* no request is made and no file exists
NoRequest ==
    /\ editing_data = [r \in Requests |-> NoEdit]
    /\ output_filename = [r \in Requests |-> None]
    /\ input_path = [r \in Requests |-> UploadA]
    /\ fs = NoFiles
    /\ output_path = [r \in Requests |-> NoPath]
    /\ trimmed_path = [r \in Requests |-> None]
    /\ cut_path = [r \in Requests |-> None]
    /\ filtered_path = [r \in Requests |-> None]
    /\ total_duration = [r \in Requests |-> None]
    /\ video_info = [r \in Requests |-> None]
    /\ pc = [r \in Requests |-> "off"]
    /\ ops = [r \in Requests |-> <<>>]
    /\ result = [r \in Requests |-> None]
    /\ now = 0
    /\ timestamp = [r \in Requests |-> DefaultTimestamp]
    /\ thumbnail = [r \in Requests |-> NoThumbnail]

\* the inputs of the chain building are every list of one to MaxFilters
\* filter_configs of the pool (with no filters _apply_filters returns
\* before it builds anything)
InitFilters ==
    /\ fcalc \in {[filters |-> f, built |-> None] :
                     f \in SeqsUpTo(FilterPool, MaxFilters) \ {<<>>}}
    /\ calc = NoCalc
    /\ NoRequest

\* lines 196-248 of _apply_filters applied to the input: the two chains, the
\* exception raised while building them, and the command built from them
FilterStep ==
    /\ IsNone(fcalc.built)
    /\ LET chains == BuildFilterChains(fcalc.filters, <<>>, <<>>)
           out == StageOutput("filtered_", UploadA)
       IN fcalc' = [fcalc EXCEPT !.built =
                       Some([video_filters |-> chains.video_filters,
                             audio_filters |-> chains.audio_filters,
                             exc |-> chains.exc,
                             cmd |-> IF IsNone(chains.exc)
                                     THEN Some(FilterCmd(UploadA, chains.video_filters,
                                                         chains.audio_filters, out))
                                     ELSE None])]
    /\ UNCHANGED <<input_path, editing_data, output_filename, output_path, timestamp,
                   thumbnail,
                   trimmed_path, cut_path, filtered_path, total_duration,
                   video_info, pc, ops, result, fs, now, calc>>

NextFilters == FilterStep

SpecFilters == InitFilters /\ [][NextFilters]_vars

(* ============================== claims =============================== *)
RECURSIVE KeptDuration(_, _)
\* the total duration of the keep segments: what they extract from an input
\* of the given duration (a segment reaching past the end of the input
\* extracts only up to the end)
KeptDuration(segs, duration) ==
    IF segs = <<>> THEN 0
    ELSE Max(0, Min(Head(segs).end, duration) - Max(Head(segs).start, 0))
         + KeptDuration(Tail(segs), duration)

\* the duration of the union of the cuts inside the window [0, duration]
CutsInWindow(cuts, duration) ==
    Cardinality({t \in 0..(duration - 1) :
                    \E i \in 1..Len(cuts) : cuts[i].start <= t /\ t < cuts[i].end})

CalcSegments == KeepSegments(Val(calc.built).filter_parts, calc.total_duration)

\* C1: for every cut list with each start < end, the keep segments that
\* _apply_cuts emits last, in total, the window's duration minus the
\* duration of the union of the cuts inside the window.
C1_KeptDurationIsWindowMinusCuts ==
    ~IsNone(calc.built) =>
        KeptDuration(CalcSegments, calc.total_duration)
            = calc.total_duration - CutsInWindow(calc.cuts, calc.total_duration)

\* C2: for every cut list with each start < end, the keep segments that
\* _apply_cuts emits are, in emission order, strictly ascending and do not
\* overlap: each segment ends at or before the start of the next.
C2_SegmentsAscendingDisjoint ==
    ~IsNone(calc.built) =>
        \A i \in 1..(Len(CalcSegments) - 1) :
            /\ CalcSegments[i].end <= CalcSegments[i + 1].start
            /\ CalcSegments[i].start < CalcSegments[i + 1].start

\* C2's case: an unsorted list of overlapping cuts has been turned into
\* three or more keep segments
C2_Witness ==
    /\ ~IsNone(calc.built)
    /\ Len(CalcSegments) >= 3
    /\ calc.cuts # sorted(calc.cuts)
    /\ \E i, j \in 1..Len(calc.cuts) :
          i # j /\ calc.cuts[i].start < calc.cuts[j].end
                /\ calc.cuts[j].start < calc.cuts[i].end

(* ----------------------- claims about process_video ------------------- *)
Returned(r) == ~IsNone(result[r])
ReturnedFailure(r) == Returned(r) /\ ~Val(result[r]).success
ReturnedSuccess(r) == Returned(r) /\ Val(result[r]).success

Tools == {"ffmpeg", "ffprobe"}
IsToolOp(e) == e.op \in Tools
\* the process of log entry e has exited with a non-zero status
ExitedNonZero(e) == IsToolOp(e) /\ ~IsNone(e.returncode) /\ Val(e.returncode) # 0
\* log entry e is a stage's ffmpeg run that exited with status 0
Produced(e) == e.op = "ffmpeg" /\ e.returncode = Some(0)

\* C3: when process_video returns success=false, every intermediate file
\* that a stage of the request produced in the temp directory has been
\* deleted.
C3_FailureLeavesNoIntermediate ==
    \A r \in Requests :
        ReturnedFailure(r) =>
            \A i \in 1..Len(ops[r]) :
                Produced(ops[r][i]) /\ ops[r][i].dst.dir = temp_dir
                    => ~exists(fs, ops[r][i].dst)

\* C4: when process_video returns success=false, the request has left no
\* file at its output path, also when the move or the final probe failed.
C4_FailureLeavesNoOutput ==
    \A r \in Requests :
        ReturnedFailure(r) => ~exists(fs, output_path[r])

HasInvertedCut(r) ==
    \E i \in 1..Len(editing_data[r].cuts) :
        editing_data[r].cuts[i].start >= editing_data[r].cuts[i].end

\* C5: a request with a cut whose start >= end makes no invocation for the
\* cut stage (no probe, no ffmpeg, so no keep segments and no temp file of
\* that stage) and does not return success.
C5_InvertedCutRejected ==
    \A r \in Requests :
        HasInvertedCut(r) =>
            /\ \A i \in 1..Len(ops[r]) : ops[r][i].stage # "cuts"
            /\ ~ReturnedSuccess(r)

BadTrim(r) ==
    LET s == editing_data[r].trimStart
        e == editing_data[r].trimEnd
    IN \/ s < 0
       \/ ~IsNone(e) /\ (Val(e) < 0 \/ s >= Val(e))

\* C6: a request whose trimStart or trimEnd is negative, or whose
\* trimStart >= trimEnd, invokes no external tool and does not return
\* success.
C6_BadTrimRejected ==
    \A r \in Requests :
        BadTrim(r) =>
            /\ \A i \in 1..Len(ops[r]) : ~IsToolOp(ops[r][i])
            /\ ~ReturnedSuccess(r)

\* the cuts of request r, each with start < end, cover the whole of the
\* cut stage's input, whose probed duration is positive
CutsCoverWindow(r) ==
    /\ ~IsNone(total_duration[r])
    /\ Val(total_duration[r]) > 0
    /\ ~HasInvertedCut(r)
    /\ CutsInWindow(editing_data[r].cuts, Val(total_duration[r]))
          = Val(total_duration[r])

\* C7: when the cuts cover the whole window of the cut stage's input, the
\* cut stage runs no ffmpeg and process_video does not return success.
C7_FullCoverageFails ==
    \A r \in Requests :
        CutsCoverWindow(r) =>
            /\ \A i \in 1..Len(ops[r]) :
                  ~(ops[r][i].op = "ffmpeg" /\ ops[r][i].stage = "cuts")
            /\ ~ReturnedSuccess(r)

\* the place of a log entry in the order trim, cut stage's probe, cut,
\* filter, move, final probe, cleanup
Rank(e) ==
    CASE e.op = "ffmpeg" /\ e.stage = "trim" -> 1
      [] e.op = "ffprobe" /\ e.stage = "cuts" -> 2
      [] e.op = "ffmpeg" /\ e.stage = "cuts" -> 3
      [] e.op = "ffmpeg" /\ e.stage = "filters" -> 4
      [] e.op = "rename" -> 5
      [] e.op = "ffprobe" /\ e.stage = "finalize" -> 6
      [] OTHER -> 7

\* the path the stage before log entry i returned: the output of the last
\* ffmpeg run before i, or the caller's input if every earlier stage was
\* skipped
PreviousOutput(r, i) ==
    LET before == {j \in 1..(i - 1) : ops[r][j].op = "ffmpeg"}
    IN IF before = {} THEN input_path[r]
       ELSE ops[r][CHOOSE j \in before : \A k \in before : k <= j].dst

\* C8: in one process_video call the steps are taken in the order trim,
\* cut, filter, move, final probe, cleanup; a step starts only when the one
\* before it has completed; every stage reads the path the previous stage
\* returned; the move takes that path to the output path, which the final
\* probe then reads.
C8_StagesInOrder ==
    \A r \in Requests :
        /\ \A i \in 1..(Len(ops[r]) - 1) :
              /\ ~IsNone(ops[r][i].returncode)
              /\ \/ Rank(ops[r][i]) < Rank(ops[r][i + 1])
                 \/ ops[r][i].op = "remove" /\ ops[r][i + 1].op = "remove"
        /\ \A i \in 1..Len(ops[r]) :
              LET e == ops[r][i]
              IN /\ e.op = "ffmpeg" \/ e.op = "rename" \/ (e.op = "ffprobe" /\ e.stage = "cuts")
                    => e.src = PreviousOutput(r, i)
                 /\ e.op = "rename" => e.dst = output_path[r]
                 /\ e.op = "ffprobe" /\ e.stage = "finalize" =>
                       /\ e.src = output_path[r]
                       /\ i > 1 /\ ops[r][i - 1].op = "rename"
                       /\ ops[r][i - 1].dst = e.src

\* C8's case: a request has run every stage and returned
C8_Witness ==
    \E r \in Requests :
        /\ pc[r] = "done"
        /\ \A k \in 1..6 : \E i \in 1..Len(ops[r]) : Rank(ops[r][i]) = k
        /\ \E i \in 1..Len(ops[r]) : ops[r][i].op = "remove"

\* C9: once a tool invocation of a request has exited non-zero, the request
\* makes no further tool invocation and does not move a file to the output
\* path.
C9_NothingAfterToolFailure ==
    \A r \in Requests :
        \A i \in 1..Len(ops[r]) :
            ExitedNonZero(ops[r][i]) =>
                \A j \in (i + 1)..Len(ops[r]) :
                    ~IsToolOp(ops[r][j]) /\ ops[r][j].op # "rename"

\* C9's case: a request has returned after its trim succeeded and a later
\* invocation, before the move, exited non-zero
C9_Witness ==
    \E r \in Requests :
        /\ pc[r] = "failed"
        /\ Len(ops[r]) >= 2
        /\ Produced(ops[r][1])
        /\ ExitedNonZero(Last(ops[r]))
        /\ Last(ops[r]).stage # "finalize"

\* the call of process_video of request r is over: it returned or raised
ProcessVideoOver(r) == pc[r] \in {"done", "failed", "raised"}

\* C10: every non-zero exit of ffmpeg or ffprobe makes process_video return
\* (not raise) a result with success=false whose error text contains the
\* stderr the tool wrote.
C10_ToolFailureReported ==
    \A r \in Requests :
        ProcessVideoOver(r) =>
            \A i \in 1..Len(ops[r]) :
                ExitedNonZero(ops[r][i]) =>
                    /\ pc[r] # "raised"
                    /\ ReturnedFailure(r)
                    /\ Contains(Val(result[r]).error, ops[r][i].stderr)

\* the log entries of request r's ffmpeg runs that exited with status 0
ProducedAt(r) == {i \in 1..Len(ops[r]) : Produced(ops[r][i])}

\* C11: when process_video returns success=true, no file that the trim, cut
\* or filter stage of the request wrote is left in the temp directory: the
\* last one was moved to the output path, every earlier one was removed.
C11_SuccessLeavesNoIntermediate ==
    \A r \in Requests :
        ReturnedSuccess(r) =>
            \A i \in ProducedAt(r) :
                /\ ~exists(fs, ops[r][i].dst)
                /\ IF \A j \in ProducedAt(r) : j <= i
                   THEN \E k \in (i + 1)..Len(ops[r]) :
                           /\ ops[r][k].op = "rename"
                           /\ ops[r][k].src = ops[r][i].dst
                           /\ ops[r][k].dst = output_path[r]
                   ELSE \E k \in (i + 1)..Len(ops[r]) :
                           /\ ops[r][k].op = "remove"
                           /\ ops[r][k].src = ops[r][i].dst

\* C11's case: a request whose trim, cut and filter stages each wrote a
\* file has returned success
C11_Witness ==
    \E r \in Requests :
        /\ ReturnedSuccess(r)
        /\ Cardinality(ProducedAt(r)) = 3

\* the no-op edit: trimStart=0, trimEnd=null, cuts=[], filters=[]
IsNoOpEdit(r) == pc[r] \notin {"off"} \cup ThumbnailCalls /\ editing_data[r] = NoEdit

\* C12: for the no-op edit process_video runs no trim, cut or filter
\* invocation (its only invocation is the final probe), and when it returns
\* success the file at the output path has the content the input had.
C12_NoOpEditPassesInputThrough ==
    \A r \in Requests :
        IsNoOpEdit(r) =>
            /\ \A i \in 1..Len(ops[r]) :
                  IsToolOp(ops[r][i]) =>
                      ops[r][i].op = "ffprobe" /\ ops[r][i].stage = "finalize"
            /\ ReturnedSuccess(r) =>
                  /\ exists(fs, Val(result[r]).output_path)
                  /\ fs[Val(result[r]).output_path] = SourceMedia

\* C12's case: a no-op edit has returned success
C12_Witness ==
    \E r \in Requests : IsNoOpEdit(r) /\ ReturnedSuccess(r)

\* request r trims from a positive trimStart and has one cut [a, b] with
\* trimStart <= a < b <= the end of the trim window
HasCutInsideTrimWindow(r) ==
    LET e == editing_data[r]
        window_end == IF IsNone(e.trimEnd) THEN SrcDuration
                      ELSE Min(Val(e.trimEnd), SrcDuration)
    IN /\ pc[r] # "off"
       /\ e.trimStart > 0
       /\ Len(e.cuts) = 1
       /\ e.trimStart <= e.cuts[1].start
       /\ e.cuts[1].start < e.cuts[1].end
       /\ e.cuts[1].end <= window_end

\* the source content of the trim window without the source content between
\* the bounds of the request's cut
WindowMinusCut(r) ==
    LET e == editing_data[r]
        window_end == IF IsNone(e.trimEnd) THEN SrcDuration
                      ELSE Min(Val(e.trimEnd), SrcDuration)
    IN Slice(SourceMedia.tl, e.trimStart, e.cuts[1].start)
       \o Slice(SourceMedia.tl, e.cuts[1].end, window_end)

\* C13: cut bounds are positions on the original media timeline: with
\* trimStart > 0 and a cut [a, b] inside the trim window, the file the cut
\* stage writes is the trim window without the source content between a and b.
C13_CutBoundsOnSourceTimeline ==
    \A r \in Requests :
        HasCutInsideTrimWindow(r) =>
            \A i \in ProducedAt(r) :
                (ops[r][i].stage = "cuts" /\ i = Len(ops[r])) =>
                    fs[ops[r][i].dst].tl = WindowMinusCut(r)

\* every ordering of the elements of the list s
Orderings(s) ==
    {[i \in 1..Len(s) |-> s[f[i]]] :
        f \in {g \in [1..Len(s) -> 1..Len(s)] :
                  \A i, j \in 1..Len(s) : g[i] = g[j] => i = j}}

\* C14: the keep segments do not depend on the order in which the cuts are
\* given: every ordering of the same cuts, cuts with the same start and
\* different ends included, yields the same segments.
C14_SegmentsIndependentOfOrder ==
    ~IsNone(calc.built) =>
        \A p \in Orderings(calc.cuts) :
            KeepSegments(BuildCutParts(p, calc.total_duration).filter_parts,
                         calc.total_duration) = CalcSegments

\* the filter types _apply_filters has a branch for
KnownFilterTypes ==
    {"brightness", "contrast", "saturation", "blur", "grayscale", "sepia",
     "volume", "speed"}

\* request r names a filter type that _apply_filters has no branch for
HasUnknownFilter(r) ==
    /\ pc[r] # "off"
    /\ \E i \in 1..Len(editing_data[r].filters) :
          editing_data[r].filters[i].type \notin KnownFilterTypes

\* C19: a filter of an unknown type makes process_video return an explicit
\* failure; it is never skipped with a success result.
C19_UnknownFilterRejected ==
    \A r \in Requests :
        (HasUnknownFilter(r) /\ Returned(r)) => ReturnedFailure(r)

\* C20: process_video never deletes, moves or overwrites the caller's input
\* file: in every step, if the file at a request's input_path exists, it
\* exists afterwards with the same content.
C20_InputFileUntouched ==
    [][\A r \in Requests :
          (pc[r] # "off" /\ exists(fs, input_path[r])) =>
              /\ exists(fs', input_path[r])
              /\ fs'[input_path[r]] = fs[input_path[r]]]_vars

(* ---------------------- claims about the filter chains ---------------- *)
\* the speed factors of the speed filters of a list, in order
RECURSIVE SpeedFactors(_)
SpeedFactors(filters) ==
    IF filters = <<>> THEN <<>>
    ELSE (IF Head(filters).type = "speed"
          THEN <<Get(Head(filters).params, "speed", 1)>> ELSE <<>>)
         \o SpeedFactors(Tail(filters))

\* the elements of a chain with the given filter name, in order
RECURSIVE Named(_, _)
Named(chain, name) ==
    IF chain = <<>> THEN <<>>
    ELSE (IF Head(chain).name = name THEN <<Head(chain)>> ELSE <<>>)
         \o Named(Tail(chain), name)

\* the products of the numerators and of the denominators of factors
RECURSIVE NumProduct(_)
NumProduct(elems) ==
    IF elems = <<>> THEN 1 ELSE Head(elems).num * NumProduct(Tail(elems))
RECURSIVE DenProduct(_)
DenProduct(elems) ==
    IF elems = <<>> THEN 1 ELSE Head(elems).den * DenProduct(Tail(elems))

\* the chains have been built from a list with a speed filter, every speed
\* factor of the list being positive
BuiltWithSpeed ==
    /\ ~IsNone(fcalc.built)
    /\ SpeedFactors(fcalc.filters) # <<>>
    /\ \A i \in 1..Len(SpeedFactors(fcalc.filters)) : SpeedFactors(fcalc.filters)[i] > 0

\* C17: a speed filter with factor f > 0 puts the time-scale factor 1/f in
\* the video chain and the tempo factor f in the audio chain, both chains
\* go into the same invocation, and the product of all video time-scale
\* factors times all audio tempo factors is 1.
C17_SpeedScalesVideoAndAudioInversely ==
    BuiltWithSpeed =>
        LET built == Val(fcalc.built)
            factors == SpeedFactors(fcalc.filters)
            setpts == Named(built.video_filters, "setpts")
            atempo == Named(built.audio_filters, "atempo")
        IN /\ setpts = [i \in 1..Len(factors) |-> Elem("setpts", 1, factors[i])]
           /\ atempo = [i \in 1..Len(factors) |-> Elem("atempo", factors[i], 1)]
           /\ IsNone(built.exc)
           /\ Val(built.cmd).args.vf = Some(built.video_filters)
           /\ Val(built.cmd).args.af = Some(built.audio_filters)
           /\ NumProduct(setpts) * NumProduct(atempo)
                = DenProduct(setpts) * DenProduct(atempo)

\* C17's case: chains built from a list with two speed filters of different
\* factors, one of them above 1, among other filters
C17_Witness ==
    /\ BuiltWithSpeed
    /\ \E i, j \in 1..Len(SpeedFactors(fcalc.filters)) :
          SpeedFactors(fcalc.filters)[i] > 1
          /\ SpeedFactors(fcalc.filters)[j] # SpeedFactors(fcalc.filters)[i]
    /\ Len(fcalc.filters) > Len(SpeedFactors(fcalc.filters))

(* ---------------------- claims about two requests -------------------- *)
\* process_video has been called for request r and has not returned
InFlight(r) ==
    pc[r] \notin {"off", "start", "done", "failed", "raised"} \cup ThumbnailCalls

\* the temp paths request r has run ffmpeg to write
TempPathsWritten(r) ==
    {ops[r][i].dst : i \in {j \in 1..Len(ops[r]) :
                               ops[r][j].op = "ffmpeg" /\ ops[r][j].dst.dir = temp_dir}}

\* C15: the paths of intermediate files are unique per request: two calls
\* of process_video in flight at once, on the same input file included,
\* write disjoint sets of temp paths.
C15_TempPathsDisjoint ==
    \A r, q \in Requests :
        (r # q /\ InFlight(r) /\ InFlight(q)) =>
            TempPathsWritten(r) \cap TempPathsWritten(q) = {}

\* what the files request r has written hold when nothing but r's own
\* tool runs, with the exit statuses they had, touches them: the successful
\* ffmpeg runs among the first n log entries applied in turn to the source
RECURSIVE Replay(_, _)
Replay(r, n) ==
    IF n = 0 THEN SourceMedia
    ELSE IF Produced(ops[r][n]) THEN FfmpegOutput(ops[r][n], Replay(r, n - 1))
    ELSE Replay(r, n - 1)

\* the log entry of the probe of request r's final output
FinalProbe(r) ==
    ops[r][CHOOSE i \in 1..Len(ops[r]) :
              ops[r][i].op = "ffprobe" /\ ops[r][i].stage = "finalize"]

\* request r is in flight and its next step reads the file its last
\* successful ffmpeg run wrote
NeedsLastProduced(r) ==
    /\ InFlight(r)
    /\ ProducedAt(r) # {}
    /\ \A i \in 1..Len(ops[r]) : ops[r][i].op # "rename"

\* C16: concurrent requests do not affect each other: under every
\* interleaving the file a request has produced and still needs is in place
\* with the content the request gave it, and a success result is the result
\* of the request run alone with the same tool responses.
C16_RequestsDoNotInterfere ==
    \A r \in Requests :
        /\ NeedsLastProduced(r) =>
              LET last == CHOOSE i \in ProducedAt(r) : \A j \in ProducedAt(r) : j <= i
              IN /\ exists(fs, ops[r][last].dst)
                 /\ fs[ops[r][last].dst] = Replay(r, Len(ops[r]))
        /\ ReturnedSuccess(r) =>
              Val(result[r]).video_info =
                  Some(VideoInfo([FinalProbe(r).stdout EXCEPT
                                     !.duration =
                                        IF IsNone(@) THEN None
                                        ELSE Some(Len(Replay(r, Len(ops[r])).tl))]))

(* ------------------------ claims about cancellation ------------------ *)
\* the task of request r was cancelled while its pipeline was running
Cancelled(r) == pc[r] = "raised"

\* C18: when a request is cancelled while its pipeline is running, the
\* process in flight is terminated, every intermediate file of the request
\* is deleted, and a Cancelled result is returned to the caller.
C18_CancelTerminatesAndCleansUp ==
    \A r \in Requests :
        Cancelled(r) =>
            /\ \A i \in 1..Len(ops[r]) :
                  IsToolOp(ops[r][i]) => ~IsNone(ops[r][i].returncode)
            /\ \A i \in ProducedAt(r) :
                  ops[r][i].dst.dir = temp_dir => ~exists(fs, ops[r][i].dst)
            /\ ReturnedFailure(r)

(* ------------------------ claims about the stages --------------------- *)
\* _apply_trim has returned or raised for request r
PastTrim(r) == pc[r] \notin {"off", "start", "trim", "trim_wait"} \cup ThumbnailCalls

\* the log entries of request r's invocations of a stage
StageOps(r, stage) ==
    {i \in 1..Len(ops[r]) : IsToolOp(ops[r][i]) /\ ops[r][i].stage = stage}

\* C21: the trim stage is skipped (no invocation, the input path returned
\* unchanged) exactly when trimStart = 0 and trimEnd is null; otherwise it
\* makes exactly one invocation, whose start is trimStart and whose duration
\* is trimEnd - trimStart when trimEnd is given and absent when it is null.
C21_TrimSkipAndInvocation ==
    \A r \in Requests :
        PastTrim(r) =>
            LET e == editing_data[r]
            IN IF e.trimStart = 0 /\ IsNone(e.trimEnd)
               THEN /\ StageOps(r, "trim") = {}
                    /\ trimmed_path[r] = Some(input_path[r])
               ELSE /\ Cardinality(StageOps(r, "trim")) = 1
                    /\ \A i \in StageOps(r, "trim") :
                          /\ ops[r][i].op = "ffmpeg"
                          /\ ops[r][i].src = input_path[r]
                          /\ ops[r][i].args.ss = Some(e.trimStart)
                          /\ ops[r][i].args.t =
                                IF IsNone(e.trimEnd) THEN None
                                ELSE Some(Val(e.trimEnd) - e.trimStart)

\* C21's case: a trim from a positive trimStart to a later trimEnd has run
\* and exited with status 0
C21_Witness ==
    \E r \in Requests :
        /\ PastTrim(r)
        /\ editing_data[r].trimStart > 0
        /\ ~IsNone(editing_data[r].trimEnd)
        /\ Val(editing_data[r].trimEnd) > editing_data[r].trimStart
        /\ \E i \in StageOps(r, "trim") : Produced(ops[r][i])

\* the cut stage of request r has probed its input, of a positive duration,
\* and every cut of the request has start < end and lies wholly outside the
\* probed duration
AllCutsOutsideWindow(r) ==
    /\ ~IsNone(total_duration[r])
    /\ Val(total_duration[r]) > 0
    /\ ~BadTrim(r)
    /\ editing_data[r].cuts # <<>>
    /\ \A i \in 1..Len(editing_data[r].cuts) :
          LET cut == editing_data[r].cuts[i]
          IN /\ cut.start < cut.end
             /\ cut.end <= 0 \/ cut.start >= Val(total_duration[r])

\* C22: cuts that lie wholly outside the duration of the cut stage's input
\* are discarded: the cut stage then makes no ffmpeg invocation and forwards
\* its input path unchanged.
C22_OutsideCutsSkipStage ==
    \A r \in Requests :
        AllCutsOutsideWindow(r) =>
            /\ \A i \in StageOps(r, "cuts") : ops[r][i].op # "ffmpeg"
            /\ ~IsNone(cut_path[r]) => cut_path[r] = trimmed_path[r]

\* C23: every keep segment _apply_cuts emits is non-empty (start < end) and
\* lies within [0, probed duration of the stage's input], also when a cut
\* starts or ends past the end of the input.
C23_SegmentsWithinWindow ==
    (~IsNone(calc.built) /\ calc.total_duration > 0) =>
        \A i \in 1..Len(CalcSegments) :
            /\ CalcSegments[i].start < CalcSegments[i].end
            /\ 0 <= CalcSegments[i].start
            /\ CalcSegments[i].end <= calc.total_duration

\* the cut command _apply_cuts has built, if it has built one
CalcCutCmd == Val(Val(calc.built).cmd)
CutCmdBuilt == ~IsNone(calc.built) /\ ~IsNone(Val(calc.built).cmd)

\* C24: in the cut invocation each keep segment i has a video trim and an
\* audio trim with the same start and end, labelled v_i and a_i; the labels
\* 0..n-1 are each defined once, the video concat and the audio concat each
\* take exactly those n labels in ascending order, and the concat count n is
\* the number of emitted segments.
C24_CutCommandLabels ==
    CutCmdBuilt =>
        LET args == CalcCutCmd.args
            n == Len(args.filter_parts)
        IN /\ n = Len(CalcSegments)
           /\ \A i \in 1..n :
                 /\ args.filter_parts[i].v.start = args.filter_parts[i].a.start
                 /\ args.filter_parts[i].v.end = args.filter_parts[i].a.end
                 /\ args.filter_parts[i].v.label = i - 1
                 /\ args.filter_parts[i].a.label = i - 1
           /\ args.video_inputs = [i \in 1..n |-> i - 1]
           /\ args.audio_inputs = [i \in 1..n |-> i - 1]
           /\ args.n = Some(n)

\* C24's case: a cut command concatenating three or more segments
C24_Witness ==
    /\ CutCmdBuilt
    /\ Len(CalcCutCmd.args.filter_parts) >= 3

\* the filter types that affect the video and those that affect the audio
VideoFilterTypes ==
    {"brightness", "contrast", "saturation", "blur", "grayscale", "sepia", "speed"}
AudioFilterTypes == {"volume", "speed"}

\* the ffmpeg filter a type puts into the video chain and into the audio chain
VideoFilterName(type) ==
    CASE type = "brightness" -> "eq=brightness"
      [] type = "contrast" -> "eq=contrast"
      [] type = "saturation" -> "eq=saturation"
      [] type = "blur" -> "boxblur"
      [] type = "grayscale" -> "hue=s=0"
      [] type = "sepia" -> "colorchannelmixer"
      [] type = "speed" -> "setpts"
AudioFilterName(type) ==
    CASE type = "volume" -> "volume"
      [] type = "speed" -> "atempo"

\* the types of a filter list that are in a set of types, in list order
RECURSIVE TypesIn(_, _)
TypesIn(filters, types) ==
    IF filters = <<>> THEN <<>>
    ELSE (IF Head(filters).type \in types THEN <<Head(filters).type>> ELSE <<>>)
         \o TypesIn(Tail(filters), types)

\* the chains have been built without an exception
ChainsBuilt == ~IsNone(fcalc.built) /\ IsNone(Val(fcalc.built).exc)

\* C25: the video chain holds the elements of the video-affecting filters
\* (brightness, contrast, saturation, blur, grayscale, sepia, speed) in the
\* order of the list, the audio chain those of the audio-affecting filters
\* (volume, speed) in the order of the list; volume adds nothing to the
\* video chain and the six visual filters add nothing to the audio chain.
C25_ChainsKeepListOrder ==
    ChainsBuilt =>
        LET built == Val(fcalc.built)
            vtypes == TypesIn(fcalc.filters, VideoFilterTypes)
            atypes == TypesIn(fcalc.filters, AudioFilterTypes)
        IN /\ [i \in 1..Len(built.video_filters) |-> built.video_filters[i].name]
                = [i \in 1..Len(vtypes) |-> VideoFilterName(vtypes[i])]
           /\ [i \in 1..Len(built.audio_filters) |-> built.audio_filters[i].name]
                = [i \in 1..Len(atypes) |-> AudioFilterName(atypes[i])]

\* C25's case: chains built from a list of a visual filter, a volume filter
\* and a speed filter, in an order other than that of first appearance in
\* the if/elif chain
C25_Witness ==
    /\ ChainsBuilt
    /\ Len(fcalc.filters) >= 3
    /\ fcalc.filters[1].type = "speed"
    /\ fcalc.filters[2].type = "volume"
    /\ fcalc.filters[3].type \in {"brightness", "grayscale", "blur"}

\* command cmd passes a stream ("v" or "a") through without re-encoding:
\* the only codec option a command of _apply_trim, _apply_cuts or
\* _apply_filters carries is the trim's "-c copy", which covers every stream
CopiesStream(cmd, stream) == stream \in {"v", "a"} /\ cmd.args.codec_copy

\* C26: the filter invocation carries a video-filter argument exactly when
\* the video chain is non-empty and an audio-filter argument exactly when
\* the audio chain is non-empty, both in the one invocation; when only one
\* chain is non-empty the other stream is passed through in copy mode.
C26_FilterArgsAndCopyMode ==
    ChainsBuilt =>
        LET built == Val(fcalc.built)
            cmd == Val(built.cmd)
        IN /\ cmd.args.vf = IF built.video_filters # <<>>
                            THEN Some(built.video_filters) ELSE None
           /\ cmd.args.af = IF built.audio_filters # <<>>
                            THEN Some(built.audio_filters) ELSE None
           /\ (built.video_filters # <<>> /\ built.audio_filters = <<>>)
                 => CopiesStream(cmd, "a")
           /\ (built.video_filters = <<>> /\ built.audio_filters # <<>>)
                 => CopiesStream(cmd, "v")

\* the log entries of request r's invocations of a tool
ToolOps(r, tool) == {i \in 1..Len(ops[r]) : ops[r][i].op = tool}

\* C27: no automatic retries: in one process_video call each of the trim,
\* cut and filter stages invokes ffmpeg at most once whatever its exit
\* status, so a request makes at most three ffmpeg invocations and at most
\* two ffprobe invocations.
C27_NoRetries ==
    \A r \in Requests :
        /\ \A stage \in {"trim", "cuts", "filters"} :
              Cardinality(StageOps(r, stage) \cap ToolOps(r, "ffmpeg")) <= 1
        /\ Cardinality(ToolOps(r, "ffmpeg")) <= 3
        /\ Cardinality(ToolOps(r, "ffprobe")) <= 2

\* C27's case: a request whose trim and cut stages ran has returned failure
\* after the one ffmpeg run of its filter stage exited with a non-zero status
C27_Witness ==
    \E r \in Requests :
        /\ ReturnedFailure(r)
        /\ Cardinality(ToolOps(r, "ffmpeg")) = 3
        /\ Last(ops[r]).stage = "filters"
        /\ ExitedNonZero(Last(ops[r]))

\* C28: whenever process_video returns success=true, a file exists at the
\* returned output_path at the moment of return (the cleanup does not remove
\* the final output), and the returned video_info was obtained by probing
\* that output path after the move.
C28_OutputExistsAndWasProbed ==
    [][\A r \in Requests :
          (~Returned(r) /\ ReturnedSuccess(r)') =>
              LET out == Val(result'[r]).output_path
              IN /\ out = output_path'[r]
                 /\ exists(fs', out)
                 /\ \E i, j \in 1..Len(ops'[r]) :
                       /\ i < j
                       /\ ops'[r][i].op = "rename" /\ ops'[r][i].dst = out
                       /\ ops'[r][j].op = "ffprobe" /\ ops'[r][j].src = out
                       /\ ops'[r][j].returncode = Some(0)
                       /\ Val(result'[r]).video_info =
                             Some(VideoInfo(ops'[r][j].stdout))]_vars

\* C29: within one request every stage that runs writes to a path other
\* than the path it reads, and the files written by the trim, cut and filter
\* stages have pairwise distinct paths: no stage overwrites its own input or
\* an earlier stage's file.
C29_StagePathsDistinct ==
    \A r \in Requests :
        \A i \in ToolOps(r, "ffmpeg") :
            /\ ops[r][i].dst # ops[r][i].src
            /\ ops[r][i].dst # input_path[r]
            /\ \A j \in ToolOps(r, "ffmpeg") :
                  i # j => ops[r][i].dst # ops[r][j].dst

\* C29's case: the trim, cut and filter stages of a request have each run
C29_Witness ==
    \E r \in Requests :
        /\ Cardinality(ToolOps(r, "ffmpeg")) = 3
        /\ \A i \in ToolOps(r, "ffmpeg") : Produced(ops[r][i])

\* process_video has generated the output filename of request r
GeneratedOutput(r) ==
    /\ output_path[r] # NoPath
    /\ Head(output_path[r].name) = "processed_video_"

\* C30: when the caller gives no output filename, two distinct calls of
\* process_video never get the same generated output path, two calls started
\* within the same clock second included, so no request's final output is
\* overwritten by another's.
C30_GeneratedOutputPathsDistinct ==
    \A r, q \in Requests :
        (r # q /\ GeneratedOutput(r) /\ GeneratedOutput(q)) =>
            output_path[r] # output_path[q]

====
